---- MODULE Spec2Model ----
(***************************************************************************)
(* A model of the news aggregator backend (backend/app/main.py): the       *)
(* import-time initialisation, the seven text scorers, and fetch_news with *)
(* its per-article pass, pooled text and trending topics.                  *)
(*                                                                         *)
(* Strings are sequences of one-character strings, so that length,         *)
(* trimming, splitting, lower-casing and substring counting are computed   *)
(* as Python computes them.  Decimal numbers are kept as integers in a     *)
(* stated unit (thousandths, hundredths, tenths) or as exact fractions.    *)
(***************************************************************************)
EXTENDS Integers, Sequences, FiniteSets, TLC

VARIABLES
    \* import-time initialisation (main.py lines 16-55)
    boot_pc, corpora, logger_bound, boot_log, app,
    \* one scorer call on one text (lines 100-315)
    sc_text, sc_env, sc_out,
    \* one generate_ai_summary call (lines 286-315)
    sm_text, sm_max, sm_out,
    \* fetch_news invocations (lines 317-434), one slot per request
    nlp, pc, params, requests_sent, reply, all_text, news_items, response

bootVars  == <<boot_pc, corpora, logger_bound, boot_log, app>>
scVars    == <<sc_text, sc_env, sc_out>>
smVars    == <<sm_text, sm_max, sm_out>>
fetchVars == <<nlp, pc, params, requests_sent, reply, all_text, news_items, response>>
vars      == <<bootVars, scVars, smVars, fetchVars>>

(***************************************************************************)
(* Python str operations                                                   *)
(***************************************************************************)
Whitespace == {" "}
LowerSeq == <<"a","b","c","d","e","f","g","h","i","j","k","l","m",
              "n","o","p","q","r","s","t","u","v","w","x","y","z">>
UpperSeq == <<"A","B","C","D","E","F","G","H","I","J","K","L","M",
              "N","O","P","Q","R","S","T","U","V","W","X","Y","Z">>
Digits == {"0","1","2","3","4","5","6","7","8","9"}
Range(s) == {s[i] : i \in DOMAIN s}
Letters == Range(LowerSeq) \cup Range(UpperSeq)

ToLower == [c \in Range(UpperSeq) |-> LowerSeq[CHOOSE i \in DOMAIN UpperSeq : UpperSeq[i] = c]]

\* str.lower()
Lower(s) == [i \in DOMAIN s |-> IF s[i] \in DOMAIN ToLower THEN ToLower[s[i]] ELSE s[i]]

\* The position of the first and of the last character that is no whitespace
FirstNonSpace(s) ==
    CHOOSE i \in DOMAIN s : s[i] \notin Whitespace /\ \A j \in 1..(i - 1) : s[j] \in Whitespace

LastNonSpace(s) ==
    CHOOSE i \in DOMAIN s :
        s[i] \notin Whitespace /\ \A j \in (i + 1)..Len(s) : s[j] \in Whitespace

\* str.strip()
Strip(s) ==
    IF \A i \in DOMAIN s : s[i] \in Whitespace THEN <<>>
    ELSE SubSeq(s, FirstNonSpace(s), LastNonSpace(s))

RECURSIVE Ascending(_)
\* The members of a set of integers, in increasing order
Ascending(S) ==
    IF S = {} THEN <<>>
    ELSE <<CHOOSE x \in S : \A y \in S : x <= y>>
             \o Ascending(S \ {CHOOSE x \in S : \A y \in S : x <= y})

\* Where the maximal runs of non-whitespace characters start and end
WordStarts(s) ==
    {i \in DOMAIN s : s[i] \notin Whitespace /\ (i = 1 \/ s[i - 1] \in Whitespace)}

WordEnds(s) ==
    {i \in DOMAIN s : s[i] \notin Whitespace /\ (i = Len(s) \/ s[i + 1] \in Whitespace)}

Pieces(s, starts, ends) == [k \in DOMAIN starts |-> SubSeq(s, starts[k], ends[k])]

\* str.split(): the maximal runs of non-whitespace characters
Split(s) == Pieces(s, Ascending(WordStarts(s)), Ascending(WordEnds(s)))

\* str.isalnum(): non-empty and every character a letter or a digit
IsAlnum(w) == w # <<>> /\ \A i \in DOMAIN w : w[i] \in Letters \cup Digits

\* The positions at which sub occurs in s
Matches(s, sub) ==
    {i \in 1..(Len(s) - Len(sub) + 1) : SubSeq(s, i, i + Len(sub) - 1) = sub}

RECURSIVE CountFrom(_, _, _)
\* The occurrences counted from position i on: the leftmost one, then the
\* next one that starts after it has ended
CountFrom(matches, width, i) ==
    IF \A j \in matches : j < i THEN 0
    ELSE 1 + CountFrom(matches, width,
                       (CHOOSE j \in matches : j >= i /\ \A k \in matches : k >= i => j <= k)
                           + width)

\* str.count(sub): the non-overlapping occurrences, scanning from the left
StrCount(s, sub) == IF sub = <<>> THEN Len(s) + 1 ELSE CountFrom(Matches(s, sub), Len(sub), 1)

\* sub in s
Contains(s, sub) == \E i \in 1..(Len(s) - Len(sub) + 1) : SubSeq(s, i, i + Len(sub) - 1) = sub

RECURSIVE JoinWith(_, _)
\* sep.join(parts)
JoinWith(parts, sep) ==
    IF parts = <<>> THEN <<>>
    ELSE IF Len(parts) = 1 THEN parts[1]
         ELSE parts[1] \o sep \o JoinWith(Tail(parts), sep)

(***************************************************************************)
(* collections.Counter(items).most_common(n): by count, descending; equal  *)
(* counts keep the order of first occurrence.                              *)
(***************************************************************************)
RECURSIVE DedupAcc(_, _)
DedupAcc(items, acc) ==
    IF items = <<>> THEN acc
    ELSE DedupAcc(Tail(items),
                  IF Head(items) \in Range(acc) THEN acc ELSE Append(acc, Head(items)))

\* The distinct items in order of first occurrence, each with its count
Counted(keys, items) ==
    [i \in DOMAIN keys |->
        [key |-> keys[i], n |-> Cardinality({j \in DOMAIN items : items[j] = keys[i]})]]

RECURSIVE InsertByCount(_, _)
InsertByCount(sorted, x) ==
    IF sorted = <<>> THEN <<x>>
    ELSE IF x.n > Head(sorted).n THEN <<x>> \o sorted
         ELSE <<Head(sorted)>> \o InsertByCount(Tail(sorted), x)

RECURSIVE SortByCount(_)
SortByCount(counted) ==
    IF counted = <<>> THEN <<>>
    ELSE InsertByCount(SortByCount(SubSeq(counted, 1, Len(counted) - 1)), counted[Len(counted)])

FirstKeys(sorted, n) == [i \in 1..(IF n < Len(sorted) THEN n ELSE Len(sorted)) |-> sorted[i].key]

MostCommon(items, n) == FirstKeys(SortByCount(Counted(DedupAcc(items, <<>>), items)), n)

(***************************************************************************)
(* round(x, k) on the exact fraction num/den (den > 0), to the nearest     *)
(* integer, a tie going to the even one.                                   *)
(***************************************************************************)
RoundDiv(num, den) ==
    IF 2 * (num % den) < den THEN num \div den
    ELSE IF 2 * (num % den) > den THEN (num \div den) + 1
    ELSE IF (num \div den) % 2 = 0 THEN num \div den ELSE (num \div den) + 1

(***************************************************************************)
(* The NLP library, as the scorers use it.  env says which primitives work *)
(* in this call: the sentiment model (TextBlob(...).sentiment), the        *)
(* sentence tokenizer (sent_tokenize), the word tokenizer                  *)
(* (TextBlob(...).words) and the noun-phrase extractor.  A primitive       *)
(* yields [exc |-> TRUE] when it raises, else [exc |-> FALSE, val |-> v].  *)
(***************************************************************************)
Raise == [exc |-> TRUE]
Ok(v) == [exc |-> FALSE, val |-> v]

Envs == [sentiment : BOOLEAN, sent_tok : BOOLEAN, word_tok : BOOLEAN, np : BOOLEAN]
EnvReady == [sentiment |-> TRUE, sent_tok |-> TRUE, word_tok |-> TRUE, np |-> TRUE]

\* The characters of a token that are letters or digits
Alnums(w) == SelectSeq(w, LAMBDA c : c \in Letters \cup Digits)

\* The sentiment lexicon: word -> <<polarity, subjectivity>>, in thousandths.
LexiconWords == { <<"g","r","e","a","t">>, <<"n","e","w">>, <<"b","a","d">>, <<"t","e","r","r","i","b","l","e">> }
LexiconEntry(w) ==
    CASE w = <<"g","r","e","a","t">> -> <<800, 750>>
      [] w = <<"n","e","w">> -> <<136, 455>>
      [] w = <<"b","a","d">> -> <<-700, 667>>
      [] w = <<"t","e","r","r","i","b","l","e">> -> <<-1000, 1000>>

\* TextBlob(text).sentiment: the mean polarity and subjectivity of the
\* lexicon words of the text, as exact fractions pol/(1000 n), subj/(1000 n);
\* 0.0 and 0.0 when the text has none.
MapAlnums(words) == [i \in DOMAIN words |-> Alnums(words[i])]

RECURSIVE SumLexicon(_, _)
SumLexicon(toks, field) ==
    IF toks = <<>> THEN 0
    ELSE LexiconEntry(Head(toks))[field] + SumLexicon(Tail(toks), field)

MeanOfLexicon(toks) ==
    IF toks = <<>> THEN Ok([pol |-> 0, subj |-> 0, n |-> 1])
    ELSE Ok([pol |-> SumLexicon(toks, 1), subj |-> SumLexicon(toks, 2), n |-> Len(toks)])

TextBlobSentiment(text, env) ==
    IF ~env.sentiment THEN Raise
    ELSE MeanOfLexicon(SelectSeq(MapAlnums(Split(Lower(text))), LAMBDA w : w \in LexiconWords))

\* The positions of the terminators that end a sentence
SentenceEnds(s) ==
    {i \in DOMAIN s : s[i] \in {".", "!", "?"} /\ (i = Len(s) \/ s[i + 1] \in Whitespace)}

\* The sentences that end at a terminator, then the text after the last one
Sentences(s, ends) ==
    [k \in DOMAIN ends |-> Strip(SubSeq(s, IF k = 1 THEN 1 ELSE ends[k - 1] + 1, ends[k]))]
        \o (IF Strip(SubSeq(s, IF ends = <<>> THEN 1 ELSE ends[Len(ends)] + 1, Len(s))) = <<>>
            THEN <<>>
            ELSE <<Strip(SubSeq(s, IF ends = <<>> THEN 1 ELSE ends[Len(ends)] + 1, Len(s)))>>)

\* sent_tokenize(text): the sentences, each ending at a terminator that is
\* followed by whitespace or by the end of the text.
SentTokenize(text, env) ==
    IF ~env.sent_tok THEN Raise ELSE Ok(Sentences(text, Ascending(SentenceEnds(text))))

\* TextBlob(word).words: the word without its punctuation, hyphens kept;
\* no token at all when nothing is left.
TextBlobWords(word, env) ==
    IF ~env.word_tok THEN Raise
    ELSE Ok(IF Alnums(word) = <<>> THEN <<>>
            ELSE <<SelectSeq(word, LAMBDA c : c \in Letters \cup Digits \cup {"-"})>>)

\* The nouns the phrase extractor knows.
Nouns == { <<"m","a","r","k","e","t">>, <<"s","t","o","c","k","s">>, <<"r","a","i","n">> }

\* TextBlob(text).noun_phrases: the lower-cased noun phrases, in text order.
NounPhrases(text, env) ==
    IF ~env.np THEN Raise
    ELSE Ok(SelectSeq(MapAlnums(Split(Lower(text))), LAMBDA w : w \in Nouns))

\* The default arguments of the scorers
DefaultMaxQuotes == 2
DefaultKeywords == 5
DefaultMaxSentences == 3
TrendingTopics == 10
ReadabilityMinLength == 10
MinKeywordLength == 3

(***************************************************************************)
(* The scorers.  Each yields [exc |-> FALSE, val |-> result], or           *)
(* [exc |-> TRUE] if an exception leaves the function.                     *)
(***************************************************************************)
\* A scorer body that is not wrapped in try/except
Unguarded(body, fallback) == body

\* try: body / except Exception: return fallback
Try(body, fallback) == IF body.exc THEN Ok(fallback) ELSE body

SentimentFallback == [polarity |-> 0, subjectivity |-> 50]

\* polarity and subjectivity in hundredths: round(x, 2)
RoundedSentiment(analysis) ==
    IF analysis.exc THEN Raise
    ELSE Ok([polarity     |-> RoundDiv(analysis.val.pol, 10 * analysis.val.n),
             subjectivity |-> RoundDiv(analysis.val.subj, 10 * analysis.val.n)])

analyze_sentiment(text, env) ==
    Try(RoundedSentiment(TextBlobSentiment(text, env)), SentimentFallback)

\* A content type decided on the rounded subjectivity that analyze_sentiment reports
ContentTypeOfRounded(analysis) ==
    IF analysis.exc THEN Raise
    ELSE Ok(IF RoundDiv(analysis.val.subj, 10 * analysis.val.n) > 60
            THEN "opinion/editorial" ELSE "factual")

\* subjectivity > 0.6, on the unrounded value
ContentTypeOf(analysis) ==
    IF analysis.exc THEN Raise
    ELSE Ok(IF analysis.val.subj * 10 > 6 * 1000 * analysis.val.n
            THEN "opinion/editorial" ELSE "factual")

analyze_content_type(text, env) ==
    Try(ContentTypeOf(TextBlobSentiment(text, env)), "unknown")

\* score and avg_sentence_length in tenths
ReadabilityDefault == [score |-> 600, reading_level |-> "standard", avg_sentence_length |-> 200]

\* count_syllables(word): the hyphen-separated parts of the first token;
\* 1 when the tokenizer raises or the word has no token.
SyllablesOf(ws) ==
    IF ws.exc \/ ws.val = <<>> THEN 1
    ELSE 1 + Cardinality({i \in DOMAIN ws.val[1] : ws.val[1][i] = "-"})

count_syllables(word, env) == SyllablesOf(TextBlobWords(word, env))

RECURSIVE SumSyllables(_, _)
SumSyllables(words, env) ==
    IF words = <<>> THEN 0
    ELSE count_syllables(Head(words), env) + SumSyllables(Tail(words), env)

\* flesch = 206.835 - 1.015 W/S - 84.6 Y/W, as the fraction num / (1000 S W)
\* max(0, min(100, flesch_score)) on num/den
Clamp(num, den) == IF num < 0 THEN 0 ELSE IF num > 100 * den THEN 100 * den ELSE num

\* Lines 172-182 on the clamped score num/den
ReadabilityResult(num, den, W, S) ==
    [score |-> RoundDiv(10 * num, den),
     reading_level |-> IF num > 80 * den THEN "easy"
                       ELSE IF num > 60 * den THEN "standard"
                       ELSE "advanced",
     avg_sentence_length |-> RoundDiv(10 * W, S)]

\* Lines 165-182 for S sentences, W words and Y syllables
Flesch(S, W, Y) ==
    ReadabilityResult(Clamp(206835 * S * W - 1015 * W * W - 84600 * Y * S, 1000 * S * W),
                      1000 * S * W, W, S)

ReadabilityBody(text, sentences, words, env) ==
    IF text = <<>> \/ Len(Strip(text)) < ReadabilityMinLength THEN Ok(ReadabilityDefault)
    ELSE IF sentences.exc THEN Raise
    ELSE IF sentences.val = <<>> THEN Ok(ReadabilityDefault)
    ELSE IF words = <<>> THEN Ok(ReadabilityDefault)
    ELSE Ok(Flesch(Len(sentences.val), Len(words), SumSyllables(words, env)))

calculate_readability_score(text, env) ==
    Try(ReadabilityBody(text, SentTokenize(text, env), Split(text), env), ReadabilityDefault)

BiasEmotional == {
    <<"m","u","s","t">>, <<"n","e","v","e","r">>, <<"a","l","w","a","y","s">>, <<"c","l","e","a","r","l","y">>,
    <<"o","b","v","i","o","u","s","l","y">> }
BiasLoaded == {
    <<"r","a","d","i","c","a","l">>, <<"e","x","t","r","e","m","i","s","t">>, <<"f","a","n","a","t","i","c">>, <<"f","u","n","d","a","m","e","n","t","a","l">> }
BiasGeneral == {
    <<"a","l","l">>, <<"e","v","e","r","y">>, <<"n","o","n","e">>, <<"n","e","v","e","r">>,
    <<"a","l","w","a","y","s">> }

BiasFallback == [bias_level |-> "unknown", bias_score |-> 0, bias_factors |-> <<>>]

CountIn(words, indicators) == Cardinality({i \in DOMAIN words : words[i] \in indicators})

\* total_bias = sum(bias_scores) + subjectivity * 5, as num / (1000 n);
\* bias_score in tenths.  The words are compared whole, punctuation included.
BiasScores(words) ==
    [emotional       |-> CountIn(words, BiasEmotional),
     loaded_words    |-> CountIn(words, BiasLoaded),
     generalizations |-> CountIn(words, BiasGeneral)]

\* Lines 211-221 on total_bias = num/den
BiasResult(num, den, bias_scores) ==
    [bias_level |-> IF num > 10 * den THEN "high"
                    ELSE IF num > 5 * den THEN "medium" ELSE "low",
     bias_score |-> RoundDiv(10 * num, den),
     bias_factors |-> bias_scores]

BiasBody(analysis, bias_scores) ==
    IF analysis.exc THEN Raise
    ELSE Ok(BiasResult((bias_scores.emotional + bias_scores.loaded_words
                        + bias_scores.generalizations) * 1000 * analysis.val.n
                       + analysis.val.subj * 5,
                       1000 * analysis.val.n, bias_scores))

detect_bias(text, env) ==
    Try(BiasBody(TextBlobSentiment(text, env), BiasScores(Split(Lower(text)))), BiasFallback)

RECURSIVE QuotesAcc(_, _, _)
QuotesAcc(sentences, quotes, max_quotes) ==
    IF sentences = <<>> THEN quotes
    ELSE QuotesAcc(Tail(sentences),
                   IF "\"" \in Range(Head(sentences)) /\ Len(quotes) < max_quotes
                   THEN Append(quotes, Strip(Head(sentences)))
                   ELSE quotes,
                   max_quotes)

QuotesBody(sentences, max_quotes) ==
    IF sentences.exc THEN Raise ELSE Ok(QuotesAcc(sentences.val, <<>>, max_quotes))

extract_key_quotes(text, max_quotes, env) ==
    Try(QuotesBody(SentTokenize(text, env), max_quotes), <<>>)

StopWords == {
    <<"t","h","e">>, <<"b","e">>, <<"t","o">>, <<"o","f">>, <<"a","n","d">>, <<"a">>,
    <<"i","n">>, <<"t","h","a","t">>, <<"h","a","v","e">>, <<"i">>, <<"i","t">>, <<"f","o","r">>,
    <<"n","o","t">>, <<"o","n">>, <<"w","i","t","h">>, <<"h","e">>, <<"a","s">>, <<"y","o","u">>,
    <<"d","o">>, <<"a","t">>, <<"t","h","i","s">>, <<"b","u","t">>, <<"h","i","s">>, <<"b","y">>,
    <<"f","r","o","m">>, <<"t","h","e","y">>, <<"w","e">>, <<"s","a","y">>, <<"h","e","r">>, <<"s","h","e">>,
    <<"o","r">>, <<"a","n">>, <<"w","i","l","l">>, <<"m","y">>, <<"o","n","e">>, <<"a","l","l">>,
    <<"w","o","u","l","d">>, <<"t","h","e","r","e">>, <<"t","h","e","i","r">>, <<"w","h","a","t">>, <<"s","o">>, <<"u","p">>,
    <<"o","u","t">>, <<"i","f">>, <<"a","b","o","u","t">>, <<"w","h","o">>, <<"g","e","t">>, <<"w","h","i","c","h">>,
    <<"g","o">>, <<"m","e">>, <<"w","h","e","n">>, <<"m","a","k","e">>, <<"c","a","n">>, <<"l","i","k","e">>,
    <<"t","i","m","e">>, <<"n","o">>, <<"j","u","s","t">>, <<"h","i","m">>, <<"k","n","o","w">>, <<"t","a","k","e">>,
    <<"p","e","o","p","l","e">>, <<"i","n","t","o">>, <<"y","e","a","r">>, <<"y","o","u","r">>, <<"g","o","o","d">>, <<"s","o","m","e">>,
    <<"c","o","u","l","d">>, <<"t","h","e","m">>, <<"s","e","e">>, <<"o","t","h","e","r">>, <<"t","h","a","n">>, <<"t","h","e","n">>,
    <<"n","o","w">>, <<"l","o","o","k">>, <<"o","n","l","y">>, <<"c","o","m","e">>, <<"i","t","s">>, <<"o","v","e","r">>,
    <<"t","h","i","n","k">>, <<"a","l","s","o">>, <<"b","a","c","k">>, <<"a","f","t","e","r">>, <<"u","s","e">>, <<"t","w","o">>,
    <<"h","o","w">>, <<"o","u","r">>, <<"w","o","r","k">>, <<"f","i","r","s","t">>, <<"w","e","l","l">>, <<"w","a","y">>,
    <<"e","v","e","n">>, <<"n","e","w">>, <<"w","a","n","t">>, <<"b","e","c","a","u","s","e">>, <<"a","n","y">>, <<"t","h","e","s","e">>,
    <<"g","i","v","e">>, <<"d","a","y">>, <<"m","o","s","t">>, <<"u","s">> }

\* The word-frequency fallback of extract_keywords (lines 258-284)
MapLower(words) == [i \in DOMAIN words |-> Lower(words[i])]

KeywordFallback(text, n) ==
    MostCommon(MapLower(SelectSeq(Split(text),
                                  LAMBDA w : /\ Lower(w) \notin StopWords
                                             /\ Len(w) > MinKeywordLength
                                             /\ IsAlnum(w))),
               n)

\* The noun phrases by frequency; the fallback when the extractor raises
\* or finds nothing.
KeywordsBody(words, text, n) ==
    IF ~words.exc /\ words.val # <<>>
    THEN Ok(MostCommon(words.val, n))
    ELSE Ok(KeywordFallback(text, n))

extract_keywords(text, n, env) == KeywordsBody(NounPhrases(text, env), text, n)

(***************************************************************************)
(* sorted(items, key=...): a stable sort of records with a fraction key    *)
(* k = <<num, den>>, den > 0, ascending.  sorted(..., reverse=True) keeps  *)
(* equal keys in their original order too, so it is this sort on the       *)
(* negated key.                                                            *)
(***************************************************************************)
KeyLess(a, b) == a.k[1] * b.k[2] < b.k[1] * a.k[2]

RECURSIVE InsertSorted(_, _)
InsertSorted(sorted, x) ==
    IF sorted = <<>> THEN <<x>>
    ELSE IF KeyLess(x, Head(sorted)) THEN <<x>> \o sorted
         ELSE <<Head(sorted)>> \o InsertSorted(Tail(sorted), x)

RECURSIVE StableSort(_)
StableSort(s) ==
    IF s = <<>> THEN <<>>
    ELSE InsertSorted(StableSort(SubSeq(s, 1, Len(s) - 1)), s[Len(s)])

\* list.index(x): the first position holding x (0-based)
IndexOf(s, x) == (CHOOSE i \in DOMAIN s : s[i] = x /\ \A j \in 1..(i - 1) : s[j] # x) - 1

\* The score of the sentence at 0-based position i, as a fraction:
\* 1/(i+1), plus 0.3 when it has 10 to 25 words.
ScoreOfLength(i, length) ==
    IF 10 <= length /\ length <= 25
    THEN <<10 + 3 * (i + 1), 10 * (i + 1)>>
    ELSE <<10, 10 * (i + 1)>>

SentenceScore(i, sentence) == ScoreOfLength(i, Len(Split(sentence)))

\* The (score, sentence) pairs, keyed for the descending sort
Scored(sentences) ==
    [p \in DOMAIN sentences |->
        [k |-> <<-SentenceScore(p - 1, sentences[p])[1], SentenceScore(p - 1, sentences[p])[2]>>,
         sentence |-> sentences[p]]]

\* key=lambda x: sentences.index(x[1])
KeyedByIndex(top, sentences) ==
    [p \in DOMAIN top |->
        [k |-> <<IndexOf(sentences, top[p].sentence), 1>>, sentence |-> top[p].sentence]]

\* The selected (score, sentence) pairs of generate_ai_summary (line 309)
SelectedSentences(sentences, max_sentences) ==
    StableSort(KeyedByIndex(SubSeq(StableSort(Scored(sentences)), 1, max_sentences), sentences))

SentencesOf(selected) == [p \in DOMAIN selected |-> selected[p].sentence]

SummaryBody(text, sentences, max_sentences) ==
    IF sentences.exc THEN Raise
    ELSE IF Len(sentences.val) <= max_sentences THEN Ok(text)
    ELSE Ok(JoinWith(SentencesOf(SelectedSentences(sentences.val, max_sentences)), <<" ">>))

generate_ai_summary(text, max_sentences, env) ==
    Try(SummaryBody(text, SentTokenize(text, env), max_sentences), text)

(***************************************************************************)
(* Specification SpecScorers: one scorer called on one text, with every    *)
(* combination of working and failing primitives.                          *)
(***************************************************************************)
ScorerTexts ==
    { <<>>,
      <<"G","r","e","a","t"," ","n","e","w">>,
      <<"S","t","o","c","k","s"," ","f","e","l","l","."," ","R","a","i","n"," ","i","s"," ","b","a","d","!">>,
      <<"H","e"," ","s","a","i","d"," ","\"","n","o","\""," ","t","o"," ","a","l","l","."," ","N","e","v","e","r","!">>,
      <<"a","-","b","-","c","-","d","-","e","-","f"," ","x","-","y","-","z","-","w","-","v","-","u",".">> }

NoCall == [fn |-> "none"]

CallAnalyzeSentiment ==
    /\ sc_out = NoCall
    /\ sc_out' = [fn |-> "analyze_sentiment", res |-> analyze_sentiment(sc_text, sc_env)]
    /\ UNCHANGED <<sc_text, sc_env, bootVars, smVars, fetchVars>>

CallAnalyzeContentType ==
    /\ sc_out = NoCall
    /\ sc_out' = [fn |-> "analyze_content_type", res |-> analyze_content_type(sc_text, sc_env)]
    /\ UNCHANGED <<sc_text, sc_env, bootVars, smVars, fetchVars>>

CallReadability ==
    /\ sc_out = NoCall
    /\ sc_out' = [fn |-> "calculate_readability_score",
                  res |-> calculate_readability_score(sc_text, sc_env)]
    /\ UNCHANGED <<sc_text, sc_env, bootVars, smVars, fetchVars>>

CallDetectBias ==
    /\ sc_out = NoCall
    /\ sc_out' = [fn |-> "detect_bias", res |-> detect_bias(sc_text, sc_env)]
    /\ UNCHANGED <<sc_text, sc_env, bootVars, smVars, fetchVars>>

CallExtractKeyQuotes ==
    /\ sc_out = NoCall
    /\ sc_out' = [fn |-> "extract_key_quotes",
                  res |-> extract_key_quotes(sc_text, DefaultMaxQuotes, sc_env)]
    /\ UNCHANGED <<sc_text, sc_env, bootVars, smVars, fetchVars>>

CallExtractKeywords ==
    /\ sc_out = NoCall
    /\ sc_out' = [fn |-> "extract_keywords",
                  res |-> extract_keywords(sc_text, DefaultKeywords, sc_env)]
    /\ UNCHANGED <<sc_text, sc_env, bootVars, smVars, fetchVars>>

CallGenerateAiSummary ==
    /\ sc_out = NoCall
    /\ sc_out' = [fn |-> "generate_ai_summary",
                  res |-> generate_ai_summary(sc_text, DefaultMaxSentences, sc_env)]
    /\ UNCHANGED <<sc_text, sc_env, bootVars, smVars, fetchVars>>

(***************************************************************************)
(* Specification SpecSummary: generate_ai_summary on texts of up to        *)
(* MaxSummarySentences sentences, with repeats of the same sentence.       *)
(***************************************************************************)
MaxSummarySentences == 5

\* A short sentence and two sentences of ten words
SentenceKinds ==
    { <<"H","i",".">>,
      <<"a"," ","b"," ","c"," ","d"," ","e"," ","f"," ","g"," ","h"," ","i"," ","j",".">>,
      <<"k"," ","l"," ","m"," ","n"," ","o"," ","p"," ","q"," ","r"," ","s"," ","t",".">> }

RECURSIVE SeqsUpTo(_, _)
\* The sequences over S of length at most n
SeqsUpTo(S, n) ==
    IF n = 0 THEN {<<>>}
    ELSE SeqsUpTo(S, n - 1) \cup {Append(s, x) : s \in {t \in SeqsUpTo(S, n - 1) : Len(t) = n - 1}, x \in S}

NoSummary == [done |-> FALSE]

\* The texts of the summary calls
SummaryTexts ==
    {JoinWith(ss, <<" ">>) : ss \in SeqsUpTo(SentenceKinds, MaxSummarySentences)}

Summarize ==
    /\ sm_out = NoSummary
    /\ sm_out' = [done |-> TRUE, res |-> generate_ai_summary(sm_text, sm_max, EnvReady)]
    /\ UNCHANGED <<sm_text, sm_max, bootVars, scVars, fetchVars>>

(***************************************************************************)
(* Specification SpecBoot: the statements the module runs when it is       *)
(* imported, in source order.                                              *)
(***************************************************************************)
required_nltk_packages ==
    <<"punkt", "brown", "averaged_perceptron_tagger", "conll2000", "movie_reviews">>

\* How many packages the loop of lines 25-29 has handled
Handled == Cardinality({i \in DOMAIN required_nltk_packages : corpora.nltk[i] # "unchecked"})

NoApp == [created |-> FALSE, cors |-> FALSE, routes |-> {}]

NoCorpora ==
    [nltk |-> [i \in DOMAIN required_nltk_packages |-> "unchecked"], textblob |-> "pending"]

\* The state an import that ran to its end leaves
ImportedCorpora ==
    [nltk |-> [i \in DOMAIN required_nltk_packages |-> "found"], textblob |-> "ok"]

Routes == {"/api/news", "/api/categories", "/api/health"}

ImportedApp == [created |-> TRUE, cors |-> TRUE, routes |-> Routes]

\* nltk.data.find succeeds (line 27), or raises LookupError and
\* nltk.download fetches the package or reports that it could not (line 29)
NltkPackage ==
    /\ boot_pc = "nltk"
    /\ Handled < Len(required_nltk_packages)
    /\ \E outcome \in {"found", "downloaded", "download_failed"} :
          corpora' = [corpora EXCEPT !.nltk[Handled + 1] = outcome]
    /\ boot_pc' = IF Handled + 1 = Len(required_nltk_packages) THEN "textblob" ELSE "nltk"
    /\ UNCHANGED <<logger_bound, boot_log, app, scVars, smVars, fetchVars>>

\* subprocess.check_call returns (line 35)
TextblobCorporaOk ==
    /\ boot_pc = "textblob"
    /\ corpora' = [corpora EXCEPT !.textblob = "ok"]
    /\ boot_pc' = "logging"
    /\ UNCHANGED <<logger_bound, boot_log, app, scVars, smVars, fetchVars>>

\* The handler of lines 36-37: logger.warning(...), with logger a module
\* global that line 44 binds.  Reading an unbound global raises NameError,
\* which leaves the handler and ends the import.
CorporaFailureHandler ==
    IF logger_bound
    THEN /\ boot_log' = Append(boot_log, "WARNING: Failed to download TextBlob corpora")
         /\ boot_pc' = "logging"
    ELSE /\ boot_log' = boot_log
         /\ boot_pc' = "crashed"

\* subprocess.check_call raises (line 35)
TextblobCorporaFails ==
    /\ boot_pc = "textblob"
    /\ corpora' = [corpora EXCEPT !.textblob = "failed"]
    /\ CorporaFailureHandler
    /\ UNCHANGED <<logger_bound, app, scVars, smVars, fetchVars>>

\* load_dotenv, logging.basicConfig, logger = logging.getLogger (lines 40-44)
ConfigureLogging ==
    /\ boot_pc = "logging"
    /\ logger_bound' = TRUE
    /\ boot_pc' = "app"
    /\ UNCHANGED <<corpora, boot_log, app, scVars, smVars, fetchVars>>

\* app = FastAPI(...), app.add_middleware(CORSMiddleware, ...) (lines 46-55)
CreateApp ==
    /\ boot_pc = "app"
    /\ app' = [app EXCEPT !.created = TRUE, !.cors = TRUE]
    /\ boot_pc' = "routes"
    /\ UNCHANGED <<corpora, logger_bound, boot_log, scVars, smVars, fetchVars>>

\* The three route decorators (lines 425-448)
RegisterRoutes ==
    /\ boot_pc = "routes"
    /\ app' = [app EXCEPT !.routes = Routes]
    /\ boot_pc' = "ready"
    /\ UNCHANGED <<corpora, logger_bound, boot_log, scVars, smVars, fetchVars>>

(***************************************************************************)
(* fetch_news.  A JSON value of the upstream reply is tagged with its      *)
(* kind: a key that is absent, null, a string, an integer, an object.      *)
(***************************************************************************)
Absent == [k |-> "absent"]
Null == [k |-> "null"]
Str(s) == [k |-> "str", v |-> s]
IntVal(n) == [k |-> "int", v |-> n]
SourceObj(name) == [k |-> "dict", name |-> name]
List(items) == [k |-> "list", v |-> items]

\* Python's None as a `search` argument
None == "<None>"

NEWS_API_KEY == "<NEWS_API_KEY>"
PageSize == 50
MinFullTextLength == 10

QueryKeys(args) ==
    {"apiKey", "language", "pageSize", "page"}
        \cup (IF args.category # "all" THEN {"category"} ELSE {})
        \cup (IF args.search # None THEN {"q"} ELSE {})

\* The outbound query: params with the None values removed (lines 321-331)
Query(args) ==
    [key \in QueryKeys(args) |->
        CASE key = "apiKey"   -> NEWS_API_KEY
          [] key = "language" -> "en"
          [] key = "pageSize" -> PageSize
          [] key = "page"     -> args.page
          [] key = "category" -> args.category
          [] key = "q"        -> args.search]

\* bool(article.get(key)) for a string-valued key
Truthy(x) == x.k = "str" /\ x.v # <<>>

\* article.get(key, "").strip(): raises AttributeError on null
GetStripped(x) ==
    CASE x.k = "absent" -> Ok(<<>>)
      [] x.k = "str"    -> Ok(Strip(x.v))
      [] OTHER          -> Raise

\* A combined text without the separating space
FullTextUnspaced(title, description) == Strip(title \o description)

\* f"{title} {description}".strip()
FullText(title, description) == Strip(title \o <<" ">> \o description)

\* article.get("source", {}).get("name", "Unknown Source"), then pydantic's
\* check that source is a str
SourceName(x) ==
    CASE x.k = "absent" -> Ok(<<"U","n","k","n","o","w","n"," ","S","o","u","r","c","e">>)
      [] x.k = "dict" /\ x.name.k = "absent"
                        -> Ok(<<"U","n","k","n","o","w","n"," ","S","o","u","r","c","e">>)
      [] x.k = "dict" /\ x.name.k = "str" -> Ok(x.name.v)
      [] OTHER          -> Raise

\* datetime.now().isoformat(), read when publishedAt is absent
Now == <<"n","o","w">>

\* article.get("publishedAt", now), then pydantic's check that it is a str
Timestamp(x) ==
    CASE x.k = "absent" -> Ok(Now)
      [] x.k = "str"    -> Ok(x.v)
      [] OTHER          -> Raise

\* a or b on two strings
OrElse(a, b) == IF a # <<>> THEN a ELSE b

\* The seven scorer calls of lines 363-371, then NewsItem(...) of lines
\* 375-390; an exception of any of them leaves the block.
NewsItem(article, title, description, category, sentiment, ai_summary, keywords, content_type, readability, bias_analysis, key_quotes, source, timestamp) ==
    IF \/ sentiment.exc \/ ai_summary.exc \/ keywords.exc \/ content_type.exc
       \/ readability.exc \/ bias_analysis.exc \/ key_quotes.exc
       \/ source.exc \/ timestamp.exc
    THEN Raise
    ELSE Ok([title         |-> title,
             url           |-> article.url.v,
             source        |-> source.val,
             timestamp     |-> timestamp.val,
             summary       |-> description,
             category      |-> category,
             urlToImage    |-> article.urlToImage,
             sentiment     |-> sentiment.val,
             ai_summary    |-> ai_summary.val,
             keywords      |-> keywords.val,
             content_type  |-> content_type.val,
             readability   |-> readability.val,
             bias_analysis |-> bias_analysis.val,
             key_quotes    |-> key_quotes.val])

BuildItem(article, title, description, full_text, category, env) ==
    NewsItem(article, title, description, category,
             analyze_sentiment(full_text, env),
             generate_ai_summary(OrElse(description, title), DefaultMaxSentences, env),
             extract_keywords(full_text, DefaultKeywords, env),
             analyze_content_type(full_text, env),
             calculate_readability_score(full_text, env),
             detect_bias(full_text, env),
             extract_key_quotes(OrElse(description, title), DefaultMaxQuotes, env),
             SourceName(article.source),
             Timestamp(article.publishedAt))

\* A handler that gives up the articles collected so far
SkipAndReset(acc) == [acc EXCEPT !.news_items = <<>>]

\* except Exception: log, continue (lines 393-395): the article is skipped
\* and the locals keep what the block had assigned before the exception.
SkipArticle(acc) == acc

\* news_items.append(item), unless building the item raised
AppendItem(pooled, item) ==
    IF item.exc THEN SkipArticle(pooled)
    ELSE [pooled EXCEPT !.news_items = Append(pooled.news_items, item.val)]

\* Lines 356-392 on the combined text
WithFullText(article, title, description, full_text, acc, category, env) ==
    IF Len(full_text) < MinFullTextLength THEN acc
    ELSE AppendItem([acc EXCEPT !.all_text = acc.all_text \o <<" ">> \o full_text],
                    BuildItem(article, title, description, full_text, category, env))

\* Lines 351-392 on the two stripped fields
WithFields(article, title, description, acc, category, env) ==
    IF title.exc \/ description.exc THEN SkipArticle(acc)
    ELSE WithFullText(article, title.val, description.val,
                      FullText(title.val, description.val), acc, category, env)

\* One pass of the loop body (lines 344-395) on the locals acc
ProcessArticle(article, acc, category, env) ==
    IF ~Truthy(article.title) \/ ~Truthy(article.url) THEN acc
    ELSE WithFields(article, GetStripped(article.title), GetStripped(article.description),
                    acc, category, env)

RECURSIVE ProcessArticles(_, _, _, _)
\* for article in data.get("articles", [])
ProcessArticles(articles, acc, category, env) ==
    IF articles = <<>> THEN acc
    ELSE ProcessArticles(Tail(articles),
                         ProcessArticle(Head(articles), acc, category, env),
                         category, env)

\* A pooled text kept at module level, which the next request goes on from
AllTextShared(r) == all_text[3 - r]

\* all_text = "" (line 340)
AllTextInit(r) == <<>>

\* raise HTTPException(status_code=500, detail=str(e)) (lines 421-423)
Http500(message) == [status |-> 500, detail |-> message]

Http200(body) == [status |-> 200, body |-> body]

\* trending_with_count (lines 408-412)
TopicCounts(trending_topics, lowered) ==
    [i \in DOMAIN trending_topics |->
        [topic |-> trending_topics[i],
         count |-> StrCount(lowered, Lower(trending_topics[i]))]]

TrendingWithCount(text, env) ==
    TopicCounts(extract_keywords(text, TrendingTopics, env).val, Lower(text))

\* A total that is always the number of returned articles
TotalCounted(data, items) == Ok(Len(items))

\* data.get("totalResults", len(news_items)), then pydantic's check that
\* total is an int
Total(data, items) ==
    CASE data.totalResults.k = "absent" -> Ok(Len(items))
      [] data.totalResults.k = "int"    -> Ok(data.totalResults.v)
      [] OTHER                          -> Raise

\* NewsResponse(...) of lines 414-419
FullResponse(locals, total, category, env) ==
    IF total.exc
    THEN Http500("validation error for NewsResponse: total")
    ELSE Http200([articles |-> locals.news_items,
                  total |-> total.val,
                  category |-> category,
                  trending_topics |-> TrendingWithCount(locals.all_text, env)])

\* Lines 397-419 on the locals the loop leaves
Respond(locals, data, category, env) ==
    [locals |-> locals,
     response |->
         IF locals.news_items = <<>>
         THEN Http200([articles |-> <<>>, total |-> 0, category |-> category,
                       trending_topics |-> <<>>])
         ELSE FullResponse(locals, Total(data, locals.news_items), category, env)]

\* Lines 335-419 on the parsed reply: the final locals and the outcome
HandleData(r, data, args, env) ==
    IF data.articles.k = "null"
    THEN [locals |-> [all_text |-> AllTextInit(r), news_items |-> <<>>],
          response |-> Http500("object of type 'NoneType' has no len()")]
    ELSE Respond(ProcessArticles(IF data.articles.k = "absent" THEN <<>> ELSE data.articles.v,
                                 [all_text |-> AllTextInit(r), news_items |-> <<>>],
                                 args.category, env),
                 data, args.category, env)

(***************************************************************************)
(* The upstream replies the specifications draw from.                      *)
(***************************************************************************)
Article(title, url, description, source) ==
    [title |-> title, url |-> url, description |-> description, source |-> source,
     publishedAt |-> Str(<<"2","0","2","4">>), urlToImage |-> Null]

Wire == SourceObj(Str(<<"W","i","r","e">>))

\* title and description of 5 and 4 characters: a combined text of 10
ArtSum9 == Article(Str(<<"H","e","l","l","o">>), Str(<<"u","1">>), Str(<<"N","e","w","s">>), Wire)
\* a title of 9 characters, no description
ArtLen9 == Article(Str(<<"R","a","i","n"," ","b","a","d","!">>), Str(<<"u","2">>), Absent, Wire)
\* a title of 10 characters once trimmed, no description
ArtLen10 == Article(Str(<<" ","G","r","e","a","t"," ","n","e","w","!"," ">>), Str(<<"u","3">>), Absent, Wire)
ArtNoUrl == Article(Str(<<"M","a","r","k","e","t"," ","s","t","o","c","k","s"," ","r","a","l","l","y">>), Absent, Str(<<"M","a","r","k","e","t">>), Wire)
ArtNoTitle == Article(Null, Str(<<"u","5">>), Str(<<"S","t","o","c","k","s"," ","a","n","d"," ","m","a","r","k","e","t">>), Wire)
\* "description": null, which str.strip() cannot take
ArtDescNull == Article(Str(<<"M","a","r","k","e","t"," ","n","e","w","s"," ","t","o","d","a","y">>), Str(<<"u","6">>), Null, Wire)
\* "source": null, which .get("name") cannot take
ArtSrcNull == Article(Str(<<"M","a","r","k","e","t"," ","f","a","l","l","s">>), Str(<<"u","7">>), Str(<<"t","e","r","r","i","b","l","e"," ","d","a","y">>), Null)
ArtMarket == Article(Str(<<"M","a","r","k","e","t"," ","u","p">>), Str(<<"u","8">>), Str(<<"S","t","o","c","k","s"," ","a","n","d"," ","m","a","r","k","e","t"," ","g","r","e","a","t">>), Wire)
\* twelve distinct words that are no nouns of the extractor
ArtLong == Article(Str(<<"a","a","a","a"," ","b","b","b","b"," ","c","c","c","c"," ","d","d","d","d"," ","e","e","e","e"," ","f","f","f","f">>), Str(<<"u","9">>), Str(<<"g","g","g","g"," ","h","h","h","h"," ","i","i","i","i"," ","j","j","j","j"," ","k","k","k","k"," ","l","l","l","l">>), Wire)

ArticleKinds ==
    {ArtSum9, ArtLen9, ArtLen10, ArtNoUrl, ArtNoTitle, ArtDescNull, ArtSrcNull, ArtMarket, ArtLong}

ConcArticleKinds == {ArtLen10, ArtSrcNull, ArtMarket}

MaxArticles == 2
MaxConcArticles == 1

DataReplies(kinds, n, totals) ==
    {[kind |-> "data", data |-> [articles |-> a, totalResults |-> t]] :
        a \in {List(s) : s \in SeqsUpTo(kinds, n)} \cup {Absent, Null}, t \in totals}

\* client.get raising (timeout, transport), raise_for_status raising,
\* response.json() raising: each with the message of its exception
Failures ==
    {[kind |-> "timeout",   message |-> "ReadTimeout"],
     [kind |-> "transport", message |-> "ConnectError: connection refused"],
     [kind |-> "status",    message |-> "Client error '429 Too Many Requests'"],
     [kind |-> "json",      message |-> "Expecting value: line 1 column 1 (char 0)"]}

Replies == DataReplies(ArticleKinds, MaxArticles, {Absent, Null, IntVal(7)})
ConcReplies == DataReplies(ConcArticleKinds, MaxConcArticles, {Absent, IntVal(7)})

ArgSets ==
    {[category |-> "general", search |-> None, page |-> 1],
     [category |-> "all", search |-> "ai", page |-> 2]}
ConcArgSets == [category : {"general", "all"}, search : {None}, page : {1}]

\* every primitive working; every primitive failing
FetchEnvs ==
    {EnvReady, [sentiment |-> FALSE, sent_tok |-> FALSE, word_tok |-> FALSE, np |-> FALSE]}

(***************************************************************************)
(* fetch_news as a state machine: the call begins and issues its one       *)
(* outbound request, is suspended at the await of line 333, and runs the   *)
(* rest of the function without suspension when the request completes.     *)
(***************************************************************************)
Requests == {1, 2}

NoArgs == [category |-> "", search |-> None, page |-> 0]
NoReply == [kind |-> "none"]
NoResponse == [status |-> 0]

\* get_news calls fetch_news (line 434), which builds params and starts
\* client.get (lines 318-333)
StartFetch(r, args) ==
    /\ pc[r] = "idle"
    /\ pc' = [pc EXCEPT ![r] = "awaiting"]
    /\ params' = [params EXCEPT ![r] = args]
    /\ requests_sent' = [requests_sent EXCEPT ![r] = Append(@, Query(args))]
    /\ UNCHANGED <<nlp, reply, all_text, news_items, response, bootVars, scVars, smVars>>

\* A failure answered with an empty result
ErrorSwallowed(failure) ==
    Http200([articles |-> <<>>, total |-> 0, category |-> "", trending_topics |-> <<>>])

\* except Exception as e: raise HTTPException(500, str(e)) (lines 421-423)
ErrorResponse(failure) == Http500(failure.message)

\* The request or the decoding of its reply raises (lines 333-335)
RequestFails(r, failure) ==
    /\ pc[r] = "awaiting"
    /\ pc' = [pc EXCEPT ![r] = "done"]
    /\ reply' = [reply EXCEPT ![r] = failure]
    /\ response' = [response EXCEPT ![r] = ErrorResponse(failure)]
    /\ UNCHANGED <<nlp, params, requests_sent, all_text, news_items, bootVars, scVars, smVars>>

\* The function returns (or raises) with these locals and this outcome
Finish(r, out) ==
    /\ all_text' = [all_text EXCEPT ![r] = out.locals.all_text]
    /\ news_items' = [news_items EXCEPT ![r] = out.locals.news_items]
    /\ response' = [response EXCEPT ![r] = out.response]

\* The request returns a 2xx reply with a JSON object (lines 335-419)
RequestReturns(r, rep) ==
    /\ pc[r] = "awaiting"
    /\ Finish(r, HandleData(r, rep.data, params[r], nlp))
    /\ pc' = [pc EXCEPT ![r] = "done"]
    /\ reply' = [reply EXCEPT ![r] = rep]
    /\ UNCHANGED <<nlp, params, requests_sent, bootVars, scVars, smVars>>

(***************************************************************************)
(* The specifications.  Each one moves its own group of variables and      *)
(* leaves the other groups at rest.                                        *)
(***************************************************************************)

\* fetch_news, one request, in a process whose import has completed
Init ==
    /\ nlp \in FetchEnvs
    /\ pc = [r \in Requests |-> "idle"]
    /\ params = [r \in Requests |-> NoArgs]
    /\ requests_sent = [r \in Requests |-> <<>>]
    /\ reply = [r \in Requests |-> NoReply]
    /\ all_text = [r \in Requests |-> <<>>]
    /\ news_items = [r \in Requests |-> <<>>]
    /\ response = [r \in Requests |-> NoResponse]
    /\ boot_pc = "ready"
    /\ corpora = ImportedCorpora
    /\ logger_bound = TRUE
    /\ boot_log = <<>>
    /\ app = ImportedApp
    /\ sc_text = <<>>
    /\ sc_env = EnvReady
    /\ sc_out = NoCall
    /\ sm_text = <<>>
    /\ sm_max = DefaultMaxSentences
    /\ sm_out = NoSummary

Next ==
    \/ \E args \in ArgSets : StartFetch(1, args)
    \/ \E failure \in Failures : RequestFails(1, failure)
    \/ \E rep \in Replies : RequestReturns(1, rep)

Spec == Init /\ [][Next]_vars

\* fetch_news, two requests in flight, in every interleaving
ConcInit ==
    /\ nlp = EnvReady
    /\ pc = [r \in Requests |-> "idle"]
    /\ params = [r \in Requests |-> NoArgs]
    /\ requests_sent = [r \in Requests |-> <<>>]
    /\ reply = [r \in Requests |-> NoReply]
    /\ all_text = [r \in Requests |-> <<>>]
    /\ news_items = [r \in Requests |-> <<>>]
    /\ response = [r \in Requests |-> NoResponse]
    /\ boot_pc = "ready"
    /\ corpora = ImportedCorpora
    /\ logger_bound = TRUE
    /\ boot_log = <<>>
    /\ app = ImportedApp
    /\ sc_text = <<>>
    /\ sc_env = EnvReady
    /\ sc_out = NoCall
    /\ sm_text = <<>>
    /\ sm_max = DefaultMaxSentences
    /\ sm_out = NoSummary

ConcNext ==
    \/ \E r \in Requests, args \in ConcArgSets : StartFetch(r, args)
    \/ \E r \in Requests, failure \in {f \in Failures : f.kind = "timeout"} : RequestFails(r, failure)
    \/ \E r \in Requests, rep \in ConcReplies : RequestReturns(r, rep)

SpecConc == ConcInit /\ [][ConcNext]_vars

\* The import of the module, from its first statement
BootInit ==
    /\ boot_pc = "nltk"
    /\ corpora = NoCorpora
    /\ logger_bound = FALSE
    /\ boot_log = <<>>
    /\ app = NoApp
    /\ nlp = EnvReady
    /\ pc = [r \in Requests |-> "idle"]
    /\ params = [r \in Requests |-> NoArgs]
    /\ requests_sent = [r \in Requests |-> <<>>]
    /\ reply = [r \in Requests |-> NoReply]
    /\ all_text = [r \in Requests |-> <<>>]
    /\ news_items = [r \in Requests |-> <<>>]
    /\ response = [r \in Requests |-> NoResponse]
    /\ sc_text = <<>>
    /\ sc_env = EnvReady
    /\ sc_out = NoCall
    /\ sm_text = <<>>
    /\ sm_max = DefaultMaxSentences
    /\ sm_out = NoSummary

BootNext ==
    \/ NltkPackage
    \/ TextblobCorporaOk
    \/ TextblobCorporaFails
    \/ ConfigureLogging
    \/ CreateApp
    \/ RegisterRoutes

SpecBoot == BootInit /\ [][BootNext]_vars

\* One scorer call on one text, under every combination of failing primitives
ScInit ==
    /\ sc_text \in ScorerTexts
    /\ sc_env \in Envs
    /\ sc_out = NoCall
    /\ boot_pc = "ready"
    /\ corpora = ImportedCorpora
    /\ logger_bound = TRUE
    /\ boot_log = <<>>
    /\ app = ImportedApp
    /\ nlp = EnvReady
    /\ pc = [r \in Requests |-> "idle"]
    /\ params = [r \in Requests |-> NoArgs]
    /\ requests_sent = [r \in Requests |-> <<>>]
    /\ reply = [r \in Requests |-> NoReply]
    /\ all_text = [r \in Requests |-> <<>>]
    /\ news_items = [r \in Requests |-> <<>>]
    /\ response = [r \in Requests |-> NoResponse]
    /\ sm_text = <<>>
    /\ sm_max = DefaultMaxSentences
    /\ sm_out = NoSummary

ScNext ==
    \/ CallAnalyzeSentiment
    \/ CallAnalyzeContentType
    \/ CallReadability
    \/ CallDetectBias
    \/ CallExtractKeyQuotes
    \/ CallExtractKeywords
    \/ CallGenerateAiSummary

SpecScorers == ScInit /\ [][ScNext]_vars

\* One generate_ai_summary call with the tokenizer working
SmInit ==
    /\ sm_text \in SummaryTexts
    /\ sm_max \in 1..DefaultMaxSentences
    /\ sm_out = NoSummary
    /\ boot_pc = "ready"
    /\ corpora = ImportedCorpora
    /\ logger_bound = TRUE
    /\ boot_log = <<>>
    /\ app = ImportedApp
    /\ nlp = EnvReady
    /\ pc = [r \in Requests |-> "idle"]
    /\ params = [r \in Requests |-> NoArgs]
    /\ requests_sent = [r \in Requests |-> <<>>]
    /\ reply = [r \in Requests |-> NoReply]
    /\ all_text = [r \in Requests |-> <<>>]
    /\ news_items = [r \in Requests |-> <<>>]
    /\ response = [r \in Requests |-> NoResponse]
    /\ sc_text = <<>>
    /\ sc_env = EnvReady
    /\ sc_out = NoCall

SmNext == Summarize

SpecSummary == SmInit /\ [][SmNext]_vars

(***************************************************************************)
(* The properties.  What a request was given and what it answered:         *)
(***************************************************************************)
Done(r) == pc[r] = "done"

\* The raw articles of the reply of request r
RawArticles(r) ==
    IF reply[r].kind = "data" /\ reply[r].data.articles.k = "list"
    THEN reply[r].data.articles.v
    ELSE <<>>

\* The per-article pass of request r ran to its end
PassCompleted(r) ==
    Done(r) /\ reply[r].kind = "data" /\ reply[r].data.articles.k # "null"

\* The articles request r returned
Returned(r) == IF response[r].status = 200 THEN response[r].body.articles ELSE <<>>

HasText(x) == x.k = "str" /\ x.v # <<>>

Trimmed(x) == IF x.k = "str" THEN Strip(x.v) ELSE <<>>

\* The characters of title and description together
SumLength(a) == Len(Trimmed(a.title)) + Len(Trimmed(a.description))

\* The length of the trimmed title, one space and the trimmed description,
\* trimmed again: the space counts when both parts are non-empty
CombinedLength(a) ==
    SumLength(a) + (IF Trimmed(a.title) # <<>> /\ Trimmed(a.description) # <<>> THEN 1 ELSE 0)

\* The raw article makes the processing block raise
RaisesInProcessing(a) == a.description.k = "null" \/ a.source.k = "null"

\* The raw article passes the filter and is processed without an exception
Survives(a) ==
    /\ HasText(a.title)
    /\ HasText(a.url)
    /\ ~RaisesInProcessing(a)
    /\ CombinedLength(a) >= 10

\* The raw article gets as far as being added to the pooled text
ReachesPooling(a) ==
    /\ HasText(a.title)
    /\ HasText(a.url)
    /\ a.description.k # "null"
    /\ CombinedLength(a) >= 10

UrlsOfRaw(articles) == [i \in DOMAIN articles |-> articles[i].url.v]

UrlsOfItems(items) == [i \in DOMAIN items |-> items[i].url]

RECURSIVE PoolOf(_)
\* The texts, each after one space
PoolOf(texts) ==
    IF texts = <<>> THEN <<>> ELSE <<" ">> \o Head(texts) \o PoolOf(Tail(texts))

\* The combined text of a raw article and of a returned item
TextOfRaw(a) == Strip(Trimmed(a.title) \o <<" ">> \o Trimmed(a.description))

TextOfItem(item) == Strip(item.title \o <<" ">> \o item.summary)

TextsOfRaw(articles) == [i \in DOMAIN articles |-> TextOfRaw(articles[i])]

TextsOfItems(items) == [i \in DOMAIN items |-> TextOfItem(items[i])]

\* C1 (as amended): in every response, each returned article is one of the
\* raw articles, with a title and a url and a combined text (trimmed title,
\* one space, trimmed description, trimmed) of at least 10 characters; and
\* every raw article with title and url, a combined text of at least 10
\* characters and no exception in its processing is returned.
C1_FilterOnCombinedText ==
    \A r \in Requests :
        (Done(r) /\ response[r].status = 200) =>
            /\ \A i \in DOMAIN Returned(r) :
                  \E j \in DOMAIN RawArticles(r) :
                      /\ HasText(RawArticles(r)[j].title)
                      /\ HasText(RawArticles(r)[j].url)
                      /\ RawArticles(r)[j].url.v = Returned(r)[i].url
                      /\ Trimmed(RawArticles(r)[j].title) = Returned(r)[i].title
                      /\ CombinedLength(RawArticles(r)[j]) >= 10
            /\ \A j \in DOMAIN RawArticles(r) :
                  Survives(RawArticles(r)[j]) =>
                      \E i \in DOMAIN Returned(r) :
                          Returned(r)[i].url = RawArticles(r)[j].url.v

\* A reply with an article of 9 combined characters and one of 10 (5 and 4
\* characters and the space), of which only the second is returned
C1_Witness ==
    /\ Done(1)
    /\ response[1].status = 200
    /\ Len(RawArticles(1)) = 2
    /\ CombinedLength(RawArticles(1)[1]) = 9
    /\ CombinedLength(RawArticles(1)[2]) = 10
    /\ SumLength(RawArticles(1)[2]) = 9
    /\ UrlsOfItems(Returned(1)) = <<RawArticles(1)[2].url.v>>

\* C1 as stated: no returned article has fewer than 10 characters of title
\* and description in total, and every raw article with title, url and
\* exactly 10 such characters is returned.
C1_AsStated ==
    \A r \in Requests :
        (Done(r) /\ response[r].status = 200) =>
            /\ \A i \in DOMAIN Returned(r) :
                  \E j \in DOMAIN RawArticles(r) :
                      /\ HasText(RawArticles(r)[j].title)
                      /\ HasText(RawArticles(r)[j].url)
                      /\ RawArticles(r)[j].url.v = Returned(r)[i].url
                      /\ SumLength(RawArticles(r)[j]) >= 10
            /\ \A j \in DOMAIN RawArticles(r) :
                  (/\ HasText(RawArticles(r)[j].title)
                   /\ HasText(RawArticles(r)[j].url)
                   /\ SumLength(RawArticles(r)[j]) = 10) =>
                      \E i \in DOMAIN Returned(r) :
                          Returned(r)[i].url = RawArticles(r)[j].url.v

\* C2: when the per-article pass has run and no article survives, the
\* response is exactly the empty 200 response for the requested category;
\* in every response with at least one article, total is the totalResults
\* the upstream reported, or the number of returned articles if it reported
\* none.
C2_TotalAndEmptyResponse ==
    \A r \in Requests :
        PassCompleted(r) =>
            /\ SelectSeq(RawArticles(r), Survives) = <<>> =>
                  response[r] = [status |-> 200,
                                 body |-> [articles |-> <<>>, total |-> 0,
                                           category |-> params[r].category,
                                           trending_topics |-> <<>>]]
            /\ (response[r].status = 200 /\ Returned(r) # <<>>) =>
                  /\ response[r].body.category = params[r].category
                  /\ response[r].body.total =
                        IF reply[r].data.totalResults.k = "int"
                        THEN reply[r].data.totalResults.v
                        ELSE Len(Returned(r))

\* A response whose total is the upstream's and exceeds the articles returned
C2_Witness ==
    /\ PassCompleted(1)
    /\ response[1].status = 200
    /\ Len(Returned(1)) = 1
    /\ reply[1].data.totalResults.k = "int"
    /\ response[1].body.total > Len(Returned(1))

\* C3: a call issues exactly one outbound request; if that request fails,
\* or an exception leaves the flow, the call ends in a 500 whose detail is
\* the message of the exception, with no response body and no articles.
C3_FailureIsOne500 ==
    \A r \in Requests :
        /\ Len(requests_sent[r]) = (IF pc[r] = "idle" THEN 0 ELSE 1)
        /\ (Done(r) /\ reply[r].kind # "data") =>
              /\ response[r] = [status |-> 500, detail |-> reply[r].message]
              /\ news_items[r] = <<>>
        /\ (Done(r) /\ reply[r].kind = "data" /\ reply[r].data.articles.k = "null") =>
              response[r].status = 500
        /\ Done(r) => response[r].status \in {200, 500}
        /\ (Done(r) /\ response[r].status = 500) => DOMAIN response[r] = {"status", "detail"}

\* A call whose request timed out
C3_Witness ==
    /\ Done(1)
    /\ reply[1].kind = "timeout"
    /\ response[1].status = 500
    /\ Len(requests_sent[1]) = 1

\* C4: the articles collected are exactly the raw articles that pass the
\* filter and raise no exception, in the order of the reply, wherever the
\* raising articles stand; they are what the response returns.
C4_OnlyTheFailingArticleIsSkipped ==
    \A r \in Requests :
        PassCompleted(r) =>
            /\ UrlsOfItems(news_items[r]) = UrlsOfRaw(SelectSeq(RawArticles(r), Survives))
            /\ response[r].status = 200 => response[r].body.articles = news_items[r]
            /\ response[r].status = 500 => reply[r].data.totalResults.k = "null"

\* A raising article first, then one that is returned
C4_Witness ==
    /\ PassCompleted(1)
    /\ Len(RawArticles(1)) = 2
    /\ HasText(RawArticles(1)[1].title) /\ HasText(RawArticles(1)[1].url)
    /\ RaisesInProcessing(RawArticles(1)[1])
    /\ response[1].status = 200
    /\ UrlsOfItems(Returned(1)) = <<RawArticles(1)[2].url.v>>

\* C5 as stated: a failed corpora download logs a warning and the import
\* goes on; it never ends in a crash.
C5_StartupContinues ==
    /\ boot_pc # "crashed"
    /\ (corpora.textblob = "failed" => boot_log # <<>>)

\* C6: no scorer lets an exception out, and when the primitive it rests on
\* fails it returns its fallback.
C6_ScorersFallBack ==
    sc_out.fn # "none" =>
        /\ ~sc_out.res.exc
        /\ (sc_out.fn = "analyze_sentiment" /\ ~sc_env.sentiment) =>
              sc_out.res.val = [polarity |-> 0, subjectivity |-> 50]
        /\ (sc_out.fn = "analyze_content_type" /\ ~sc_env.sentiment) =>
              sc_out.res.val = "unknown"
        /\ (sc_out.fn = "calculate_readability_score" /\ ~sc_env.sent_tok) =>
              sc_out.res.val = [score |-> 600, reading_level |-> "standard",
                                avg_sentence_length |-> 200]
        /\ (sc_out.fn = "detect_bias" /\ ~sc_env.sentiment) =>
              sc_out.res.val = [bias_level |-> "unknown", bias_score |-> 0,
                                bias_factors |-> <<>>]
        /\ (sc_out.fn = "extract_key_quotes" /\ ~sc_env.sent_tok) =>
              sc_out.res.val = <<>>
        /\ (sc_out.fn = "extract_keywords" /\ ~sc_env.np) =>
              sc_out.res.val = KeywordFallback(sc_text, DefaultKeywords)
        /\ (sc_out.fn = "generate_ai_summary" /\ ~sc_env.sent_tok) =>
              sc_out.res.val = sc_text

\* detect_bias on a text with bias words, with the sentiment model failing
C6_Witness ==
    /\ sc_out.fn = "detect_bias"
    /\ ~sc_env.sentiment
    /\ Contains(sc_text, <<"N","e","v","e","r">>)
    /\ sc_out.res = [exc |-> FALSE,
                     val |-> [bias_level |-> "unknown", bias_score |-> 0,
                              bias_factors |-> <<>>]]

\* The sentences of the text of the summary call
SmSentences == SentTokenize(sm_text, EnvReady).val

\* Ten times the score of the sentence at position p (from 1), times p
ScoreNum(p) ==
    10 + (IF 10 <= Len(Split(SmSentences[p])) /\ Len(Split(SmSentences[p])) <= 25
          THEN 3 * p ELSE 0)

\* The sentence at p is selected before the one at q: a higher score, or
\* the same score and an earlier position
Beats(p, q) ==
    \/ ScoreNum(p) * q > ScoreNum(q) * p
    \/ ScoreNum(p) * q = ScoreNum(q) * p /\ p < q

\* The positions of the sm_max best sentences
TopPositions ==
    {p \in DOMAIN SmSentences :
        Cardinality({q \in DOMAIN SmSentences : Beats(q, p)}) < sm_max}

\* C7 as stated: a text of more than max_sentences sentences is summarised
\* by its max_sentences best sentences in document order, also when a
\* sentence occurs twice; a shorter text is returned unchanged.
C7_TopSentencesInDocumentOrder ==
    sm_out.done =>
        sm_out.res =
            [exc |-> FALSE,
             val |-> IF Len(SmSentences) <= sm_max THEN sm_text
                     ELSE JoinWith([k \in 1..sm_max |-> SmSentences[Ascending(TopPositions)[k]]],
                                   <<" ">>)]

\* The pooled text of the articles the response returns
SurvivorPool(r) == Lower(PoolOf(TextsOfItems(Returned(r))))

\* C8 as stated: at most 10 trending topics, each counted in the pooled
\* text of exactly the returned articles.
C8_TopicsCountedOverSurvivors ==
    \A r \in Requests :
        (Done(r) /\ response[r].status = 200 /\ Returned(r) # <<>>) =>
            /\ Len(response[r].body.trending_topics) <= 10
            /\ \A i \in DOMAIN response[r].body.trending_topics :
                  response[r].body.trending_topics[i].count =
                      StrCount(SurvivorPool(r), Lower(response[r].body.trending_topics[i].topic))

\* C9: a request's collected articles and pooled text come from its own
\* reply alone, and two requests given the same parameters and the same
\* reply answer the same, whatever the other one did in between.
C9_RequestsAreIsolated ==
    /\ \A r \in Requests :
          PassCompleted(r) =>
              /\ all_text[r] = PoolOf(TextsOfRaw(SelectSeq(RawArticles(r), ReachesPooling)))
              /\ UrlsOfItems(news_items[r]) = UrlsOfRaw(SelectSeq(RawArticles(r), Survives))
              /\ response[r].status = 200 => response[r].body.category = params[r].category
    /\ \A r1, r2 \in Requests :
          (Done(r1) /\ Done(r2) /\ params[r1] = params[r2] /\ reply[r1] = reply[r2]) =>
              /\ response[r1] = response[r2]
              /\ all_text[r1] = all_text[r2]
              /\ news_items[r1] = news_items[r2]

\* Two requests that overlapped and returned different articles
C9_Witness ==
    /\ Done(1) /\ Done(2)
    /\ response[1].status = 200 /\ response[2].status = 200
    /\ Returned(1) # <<>> /\ Returned(2) # <<>>
    /\ UrlsOfItems(Returned(1)) # UrlsOfItems(Returned(2))
    /\ params[1] # params[2]

\* The unrounded subjectivity of the text of a returned item exceeds 0.6
RawSubjectivityAbove(item) ==
    TextBlobSentiment(TextOfItem(item), EnvReady).val.subj * 10
        > 6 * 1000 * TextBlobSentiment(TextOfItem(item), EnvReady).val.n

\* C10 (as amended): when neither scorer fell back, content_type is
\* "opinion/editorial" exactly when the unrounded subjectivity exceeds 0.6
\* and "factual" otherwise; so a reported subjectivity above 0.60 goes with
\* "opinion/editorial", one below 0.60 with "factual", and a reported 0.60
\* with either.
C10_ContentTypeFollowsRawSubjectivity ==
    \A r \in Requests :
        (Done(r) /\ nlp.sentiment) =>
            \A i \in DOMAIN Returned(r) :
                /\ Returned(r)[i].content_type \in {"opinion/editorial", "factual"}
                /\ Returned(r)[i].content_type = "opinion/editorial"
                      <=> RawSubjectivityAbove(Returned(r)[i])
                /\ Returned(r)[i].sentiment.subjectivity > 60 =>
                      Returned(r)[i].content_type = "opinion/editorial"
                /\ Returned(r)[i].sentiment.subjectivity < 60 =>
                      Returned(r)[i].content_type = "factual"

\* A returned article that reports subjectivity 0.60 and "opinion/editorial"
C10_Witness ==
    /\ Done(1)
    /\ nlp.sentiment
    /\ \E i \in DOMAIN Returned(1) :
          /\ Returned(1)[i].sentiment.subjectivity = 60
          /\ Returned(1)[i].content_type = "opinion/editorial"

\* C10 as stated: content_type is "opinion/editorial" exactly when the
\* reported subjectivity is greater than 0.60.
C10_AsStated ==
    \A r \in Requests :
        (Done(r) /\ nlp.sentiment) =>
            \A i \in DOMAIN Returned(r) :
                Returned(r)[i].content_type = "opinion/editorial"
                    <=> Returned(r)[i].sentiment.subjectivity > 60

====
